---- MODULE Spec2Model ----
(***************************************************************************)
(* r2-notify socket service: the connection registry (client_store.go),    *)
(* the delivery gateway (sendToUser), the per-connection session           *)
(* (handlers/websocket.go) and the Event Hub ingestion handler.            *)
(*                                                                         *)
(* One action per handler.  The outcome of every call to an external       *)
(* collaborator (Redis, MongoDB) is an input of the action: the call        *)
(* either succeeds or returns an error.  A socket write succeeds iff the   *)
(* connection is neither closed locally nor broken on the network.         *)
(***************************************************************************)
EXTENDS Integers, Sequences, FiniteSets, TLC

\* ------------------------------------------------------------------ bounds
MaxConns == 2
MaxNotif == 1
MaxCfgRows == 2

Users == {"u1", "u2"}
Apps == {"a1"}
Groups == {"g1"}
\* the goroutines that run registry operations side by side
Tasks == {"t1", "t2"}
\* runtimeInfo.PartitionIDs
Partitions == {"p0", "p1"}
Conns == 1..MaxConns
NotifIds == 1..MaxNotif
\* the id carried by a frame: an id of the collection, or 0 for a string that
\* is not the hex form of an ObjectID
FrameIds == 0..MaxNotif

\* ------------------------------------------------- wire discriminators
NEW_NOTIFICATION == "newNotification"
LIST_NOTIFICATIONS == "listNotifications"
LIST_CONFIGURATIONS == "listConfigurations"
MARK_AS_READ == "markAsRead"
MARK_APP_AS_READ == "markAppAsRead"
MARK_GROUP_AS_READ == "markGroupAsRead"
MARK_NOTIFICATION_AS_READ == "markNotificationAsRead"
DELETE_NOTIFICATIONS == "deleteNotifications"
DELETE_APP_NOTIFICATIONS == "deleteAppNotifications"
DELETE_GROUP_NOTIFICATIONS == "deleteGroupNotifications"
DELETE_NOTIFICATION == "deleteNotification"
RELOAD_NOTIFICATIONS == "reloadNotifications"
TOGGLE_NOTIFICATION_STATUS == "toggleNotificationStatus"

MutationEvents ==
    {MARK_AS_READ, MARK_APP_AS_READ, MARK_GROUP_AS_READ, MARK_NOTIFICATION_AS_READ,
     DELETE_NOTIFICATIONS, DELETE_APP_NOTIFICATIONS, DELETE_GROUP_NOTIFICATIONS,
     DELETE_NOTIFICATION}
ClientEvents == MutationEvents \cup {RELOAD_NOTIFICATIONS, TOGGLE_NOTIFICATION_STATUS}
\* discriminators a client may send that the switch does not know
UnknownEvents == {"setNotificationStatus", NEW_NOTIFICATION}
\* events whose handler decodes the frame a second time, into the payload type
PayloadEvents == ClientEvents \ {MARK_AS_READ, DELETE_NOTIFICATIONS, RELOAD_NOTIFICATIONS}

\* ------------------------------------------------------------- errors
OK == "ok"
ErrNotConnected == "user not connected"
ErrDisabled == "notifications are disabled for this user"
ErrRedis == "redis error"

\* ------------------------------------------------------------- state
VARIABLES
    clients,   \* the registry map: userID -> sequence of connections
    rdb,       \* Redis: userID -> ClientInfo, for the keys "client:<id>"
    notifs,    \* the notifications collection: id -> document
    cfgs,      \* the configurations collection: userID -> rows, in insertion order
    conn,      \* per connection: its user, session, keepalive task and socket
    readers,   \* per Event Hub partition: whether its receive loop is running
    muted,     \* history: the users whose last toggle turned notifications off
    tasks,     \* per goroutine: where it is inside a registry operation or a write
    peer,      \* the registry map of a second instance that shares Redis and Mongo
    hub,       \* the cancellation context of main and the Event Hub client
    last       \* what the last handler did: its calls, its sends, its writes

vars == <<clients, rdb, notifs, cfgs, conn, readers, muted, tasks, peer, hub, last>>

Put(f, k, v) == [x \in DOMAIN f \cup {k} |-> IF x = k THEN v ELSE f[x]]
Drop(f, k) == [x \in DOMAIN f \ {k} |-> f[x]]
Elems(s) == {s[i] : i \in 1..Len(s)}

\* A document removed from the collection keeps its id (ObjectIDs are not reused).
Deleted == [userId |-> "", appId |-> "", groupKey |-> "", readStatus |-> TRUE, gone |-> TRUE]
Doc(u, a, g) == [userId |-> u, appId |-> a, groupKey |-> g, readStatus |-> FALSE, gone |-> FALSE]

\* The part of the state a handler works on, with the trace of the handler:
\* calls  the collaborator operations called, in order, each with its outcome
\* sends  one record per sendToUser call
\* wlog   one record per WriteMessage call
\* err    whether the last call returned an error
\* lock   how the handler holds clientsMutex: "none", "R" (RLock) or "W" (Lock)
\* held   one record per Redis call and per WriteMessage call: the lock held then
Start ==
    [clients |-> clients, rdb |-> rdb, notifs |-> notifs, cfgs |-> cfgs,
     calls |-> <<>>, sends |-> <<>>, wlog |-> <<>>, err |-> FALSE,
     lock |-> "none", held |-> <<>>, out |-> ""]

\* the calls that block on the network: Redis commands and socket writes
Blocking == {"Redis.Get", "Redis.Set", "Redis.Del", "WriteMessage"}

\* a call that blocks is recorded with the lock the caller holds
Hold(S, name, n) ==
    IF name \in Blocking
    THEN [S EXCEPT !.held = @ \o [i \in 1..n |-> [op |-> name, lock |-> S.lock]]]
    ELSE S

Call(S, name, err) ==
    [Hold(S, name, 1) EXCEPT !.calls = Append(@, [op |-> name, err |-> err]), !.err = err]

\* clientsMutex.Lock / RLock and Unlock / RUnlock
Lock(S, mode) == [S EXCEPT !.lock = mode]
Unlock(S) == [S EXCEPT !.lock = "none"]

\* connections on which WriteMessage succeeds: not closed by conn.Close() (open)
\* and with a working network path (up; kept FALSE once the connection is closed)
Writable == {c \in Conns : conn[c].open /\ conn[c].up}

\* ------------------------------------------------ services/client_store.go
\* models.ClientInfo.  ConnectedAt is time.Now() at the accept of a connection,
\* written here as the connection's number; 0 is the zero time.
ClientInfo(id, at, en) == [ID |-> id, ConnectedAt |-> at, EnableNotification |-> en]

\* StoreClient: append under the lock, then Set "client:<ID>".
StoreClient(S, info, c, setOk) ==
    LET cs == IF info.ID \in DOMAIN S.clients THEN S.clients[info.ID] ELSE <<>>
        S0 == Unlock([Lock(S, "W") EXCEPT !.clients = Put(S.clients, info.ID, Append(cs, c))])
        S1 == Call(S0, "Redis.Set", ~setOk)
    IN  IF setOk THEN [S1 EXCEPT !.rdb = Put(S.rdb, info.ID, info)] ELSE S1

\* a removal that cleans up whatever handles remain
RemoveConnection_AlwaysCleanUp(S, userId, c, delOk) ==
    IF userId \notin DOMAIN S.clients
    THEN S
    ELSE [Call(S, "Redis.Del", ~delOk) EXCEPT
             !.clients = Drop(S.clients, userId),
             !.rdb = IF delOk THEN Drop(S.rdb, userId) ELSE S.rdb]

\* RemoveConnection: filter the connection out; when none remains, delete the
\* map entry and Del the Redis key (the error of Del is discarded).
RemoveConnection(S, userId, c, delOk) ==
    IF userId \notin DOMAIN S.clients
    THEN S
    ELSE LET remaining == SelectSeq(S.clients[userId], LAMBDA x : x # c)
         IN  IF Len(remaining) = 0
             THEN Unlock([Call(Lock(S, "W"), "Redis.Del", ~delOk) EXCEPT
                      !.clients = Drop(S.clients, userId),
                      !.rdb = IF delOk THEN Drop(S.rdb, userId) ELSE S.rdb])
             ELSE [S EXCEPT !.clients = Put(S.clients, userId, remaining)]

\* GetClientInfo: Get "client:<id>"; a missing key is the error redis.Nil.
GetClientInfo(S, id, getOk) ==
    IF getOk /\ id \in DOMAIN S.rdb
    THEN [err |-> FALSE, info |-> S.rdb[id]]
    ELSE [err |-> TRUE, info |-> ClientInfo("", 0, FALSE)]

\* UpdateClientInfo: Set "client:<ID>" to the given record, whole.
UpdateClientInfo(S, info, setOk) ==
    IF setOk
    THEN [Call(S, "Redis.Set", FALSE) EXCEPT !.rdb = Put(S.rdb, info.ID, info)]
    ELSE Call(S, "Redis.Set", TRUE)

\* getConnAndInfo: the map entry, then the ClientInfo.
getConnAndInfo(S, userID, getOk) ==
    IF userID \notin DOMAIN S.clients
    THEN [res |-> ErrNotConnected, conns |-> <<>>, found |-> FALSE, enabled |-> FALSE]
    ELSE LET g == GetClientInfo(S, userID, getOk)
         IN  IF g.err
             THEN [res |-> ErrRedis, conns |-> <<>>, found |-> TRUE, enabled |-> FALSE]
             ELSE [res |-> OK, conns |-> S.clients[userID], found |-> TRUE,
                   enabled |-> g.info.EnableNotification]

\* The record a sendToUser call leaves in the trace: what it looked up, the
\* connections it wrote to (in order, with the outcome) and what it returned.
SendRec(userID, payload, bypass, res, entry, writes) ==
    [user |-> userID, event |-> payload.event, bypass |-> bypass, res |-> res,
     entry |-> entry, writes |-> writes]

\* a loop that ends at the first failed write
WriteAll_StopAtFailure(conns, wok) ==
    LET bad == {i \in 1..Len(conns) : conns[i] \notin wok}
        n == IF bad = {} THEN Len(conns) ELSE CHOOSE i \in bad : \A j \in bad : i <= j
    IN  [i \in 1..n |-> [conn |-> conns[i], ok |-> conns[i] \in wok]]

\* the loop of sendToUser: one WriteMessage per connection, whatever the others did
WriteAll(conns, wok) == [i \in 1..Len(conns) |-> [conn |-> conns[i], ok |-> conns[i] \in wok]]

\* the connections sendToUser keeps: those whose write succeeded
\* a prune that keeps only the last handle whose write succeeded
ActiveConns_KeepLast(conns, wok) ==
    LET okc == SelectSeq(conns, LAMBDA c : c \in wok)
    IN  IF okc = <<>> THEN <<>> ELSE <<okc[Len(okc)]>>

ActiveConns(conns, wok) == SelectSeq(conns, LAMBDA x : x \in wok)

\* a gate that lets every send through
Gated_Never(bypass, enabled) == FALSE

\* the gate: !bypassNotificationCheck && !clientInfo.EnableNotification
Gated(bypass, enabled) == ~bypass /\ ~enabled

\* sendToUser(userID, payload, bypassNotificationCheck).  wok: the connections
\* on which a write succeeds.
sendToUser(S, userID, payload, bypass, getOk, wok) ==
    LET g == getConnAndInfo(S, userID, getOk)
        S0 == Lock(S, "R")
        S1 == IF g.found THEN Call(S0, "Redis.Get", g.res = ErrRedis) ELSE S0
        entry == IF g.found THEN <<S.clients[userID]>> ELSE <<>>
    IN  IF g.res # OK
        THEN [Unlock(S1) EXCEPT !.err = TRUE,
                        !.sends = Append(@, SendRec(userID, payload, bypass, g.res, entry, <<>>))]
        ELSE IF Gated(bypass, g.enabled)
        THEN [Unlock(S1) EXCEPT !.err = TRUE,
                        !.sends = Append(@, SendRec(userID, payload, bypass, ErrDisabled, entry, <<>>))]
        ELSE LET ws == WriteAll(g.conns, wok)
             IN  [Unlock(Hold(S1, "WriteMessage", Len(ws))) EXCEPT
                     !.err = FALSE,
                     !.clients = Put(S.clients, userID, ActiveConns(g.conns, wok)),
                     !.sends = Append(@, SendRec(userID, payload, bypass, OK, entry, ws)),
                     !.wlog = @ \o [i \in 1..Len(ws) |->
                                      [conn |-> ws[i].conn, ok |-> ws[i].ok,
                                       event |-> payload.event, data |-> payload.data]]]

\* a notification push that bypasses the gate
SendNotificationToUser_Bypass(S, payload, getOk, wok) ==
    sendToUser(S, payload.userID, payload, TRUE, getOk, wok)

SendNotificationToUser(S, payload, getOk, wok) ==
    sendToUser(S, payload.userID, payload, FALSE, getOk, wok)

SendConfigurationToUser(S, payload, bypass, getOk, wok) ==
    sendToUser(S, payload.userID, payload, bypass, getOk, wok)

\* a list send that bypasses the gate
SendNotificationListToUser_Bypass(S, userID, payload, getOk, wok) ==
    sendToUser(S, userID, payload, TRUE, getOk, wok)

SendNotificationListToUser(S, userID, payload, getOk, wok) ==
    sendToUser(S, userID, payload, FALSE, getOk, wok)

\* ------------------------- repository/notification/notification_repository_impl.go
\* strings.TrimSpace, then strings.Trim(s, `"'`), on the values frames carry
Trim(s) ==
    CASE s = "'a1'" -> "a1"
      [] s = " g1"  -> "g1"
      [] OTHER      -> s
\* the appId and groupKey values frames carry
FrameApps == {"'a1'", "a2"}
FrameGroups == {" g1", "g2"}

Live(S, i) == i \in DOMAIN S.notifs /\ ~S.notifs[i].gone

\* the ids of the documents a filter on userId, appId and groupKey matches;
\* "" for a field the filter leaves out
Matching(S, userId, appId, groupKey) ==
    {i \in DOMAIN S.notifs :
        /\ Live(S, i)
        /\ S.notifs[i].userId = userId
        /\ appId # "" => S.notifs[i].appId = appId
        /\ groupKey # "" => S.notifs[i].groupKey = groupKey}

\* an update that flips readStatus
SetRead_Flip(S, ids) ==
    [S EXCEPT !.notifs = [i \in DOMAIN S.notifs |->
        IF i \in ids THEN [S.notifs[i] EXCEPT !.readStatus = ~@] ELSE S.notifs[i]]]

\* UpdateMany $set readStatus, and DeleteMany, on the documents of ids
SetRead(S, ids) ==
    [S EXCEPT !.notifs = [i \in DOMAIN S.notifs |->
        IF i \in ids THEN [S.notifs[i] EXCEPT !.readStatus = TRUE] ELSE S.notifs[i]]]
Remove(S, ids) ==
    [S EXCEPT !.notifs = [i \in DOMAIN S.notifs |-> IF i \in ids THEN Deleted ELSE S.notifs[i]]]

\* Find {userId, readStatus: false}
FindAll(S, userId) ==
    {i \in DOMAIN S.notifs : Live(S, i) /\ S.notifs[i].userId = userId /\ ~S.notifs[i].readStatus}

\* InsertOne: the new document gets the next id
Create(S, doc, ok) ==
    IF ok
    THEN [Call(S, "Create", FALSE) EXCEPT !.notifs = Append(S.notifs, doc)]
    ELSE Call(S, "Create", TRUE)

MarkAsRead(S, clientId, ok) ==
    IF ok
    THEN SetRead(Call(S, "MarkAsRead", FALSE), Matching(S, clientId, "", ""))
    ELSE Call(S, "MarkAsRead", TRUE)

MarkAppAsRead(S, clientId, appId, ok) ==
    IF ok
    THEN SetRead(Call(S, "MarkAppAsRead", FALSE), Matching(S, clientId, Trim(appId), ""))
    ELSE Call(S, "MarkAppAsRead", TRUE)

MarkGroupAsRead(S, clientId, appId, groupKey, ok) ==
    IF ok
    THEN SetRead(Call(S, "MarkGroupAsRead", FALSE),
                  Matching(S, clientId, Trim(appId), Trim(groupKey)))
    ELSE Call(S, "MarkGroupAsRead", TRUE)

\* an update that reports success and sets nothing
MarkNotificationAsRead_NoEffect(S, clientId, notificationId, ok) ==
    Call(S, "MarkNotificationAsRead", ~(ok /\ notificationId # 0))

\* ObjectIDFromHex fails on id 0; UpdateByID filters on _id alone
MarkNotificationAsRead(S, clientId, notificationId, ok) ==
    IF ok /\ notificationId # 0
    THEN [Call(S, "MarkNotificationAsRead", FALSE) EXCEPT
              !.notifs = [i \in DOMAIN S.notifs |->
                  IF Live(S, i) /\ i = notificationId
                  THEN [S.notifs[i] EXCEPT !.readStatus = TRUE] ELSE S.notifs[i]]]
    ELSE Call(S, "MarkNotificationAsRead", TRUE)

DeleteNotifications(S, clientId, ok) ==
    IF ok
    THEN Remove(Call(S, "DeleteNotifications", FALSE), Matching(S, clientId, "", ""))
    ELSE Call(S, "DeleteNotifications", TRUE)

DeleteAppNotifications(S, clientId, appId, ok) ==
    IF ok
    THEN Remove(Call(S, "DeleteAppNotifications", FALSE), Matching(S, clientId, Trim(appId), ""))
    ELSE Call(S, "DeleteAppNotifications", TRUE)

DeleteGroupNotifications(S, clientId, appId, groupKey, ok) ==
    IF ok
    THEN Remove(Call(S, "DeleteGroupNotifications", FALSE),
                 Matching(S, clientId, Trim(appId), Trim(groupKey)))
    ELSE Call(S, "DeleteGroupNotifications", TRUE)

\* DeleteOne {userId, _id}
DeleteNotification(S, clientId, notificationId, ok) ==
    IF ok /\ notificationId # 0
    THEN [Call(S, "DeleteNotification", FALSE) EXCEPT
              !.notifs = [i \in DOMAIN S.notifs |->
                  IF Live(S, i) /\ i = notificationId /\ S.notifs[i].userId = clientId
                  THEN Deleted ELSE S.notifs[i]]]
    ELSE Call(S, "DeleteNotification", TRUE)

\* ----------------------- repository/configuration/configuration_repository_impl.go
\* FindOne {userId}: the first row; an error when there is none or the call fails
FindByAppAndUser(S, userId, ok) ==
    IF ok /\ Len(S.cfgs[userId]) > 0
    THEN [err |-> FALSE, Id |-> 1, EnableNotification |-> S.cfgs[userId][1]]
    ELSE [err |-> TRUE, Id |-> 0, EnableNotification |-> FALSE]

\* InsertOne: a new row, whatever rows the user has
CreateConfiguration(S, userId, enable, ok) ==
    IF ok
    THEN [Call(S, "Configuration.Create", FALSE) EXCEPT
             !.cfgs = [S.cfgs EXCEPT ![userId] = Append(@, enable)]]
    ELSE Call(S, "Configuration.Create", TRUE)

\* UpdateOne {userId}: the first row; "no document found to update" when none matches
UpdateConfiguration(S, userId, enable, ok) ==
    IF ok /\ Len(S.cfgs[userId]) > 0
    THEN [Call(S, "Configuration.Update", FALSE) EXCEPT
             !.cfgs = [S.cfgs EXCEPT ![userId] = [@ EXCEPT ![1] = enable]]]
    ELSE Call(S, "Configuration.Update", TRUE)

\* ------------------------------------------------------ handlers/websocket.go
\* A client frame: whether it decodes into data.Event, its discriminator,
\* whether it decodes into the payload type of the action, and the fields the
\* actions read.
BaseFrame(ev) ==
    [event |-> ev, parses |-> TRUE, payloadOk |-> TRUE,
     appId |-> "a1", groupKey |-> "g2", id |-> 0, enable |-> FALSE]
NoFrame == BaseFrame("")
Frames ==
    {[NoFrame EXCEPT !.parses = FALSE]}
    \cup {BaseFrame(ev) : ev \in UnknownEvents \cup (ClientEvents \ PayloadEvents)}
    \cup {[BaseFrame(ev) EXCEPT !.payloadOk = FALSE] : ev \in PayloadEvents}
    \cup {[BaseFrame(ev) EXCEPT !.appId = a] :
             ev \in {MARK_APP_AS_READ, DELETE_APP_NOTIFICATIONS}, a \in FrameApps}
    \cup {[BaseFrame(ev) EXCEPT !.appId = a, !.groupKey = g] :
             ev \in {MARK_GROUP_AS_READ, DELETE_GROUP_NOTIFICATIONS},
             a \in FrameApps, g \in FrameGroups}
    \cup {[BaseFrame(ev) EXCEPT !.id = i] :
             ev \in {MARK_NOTIFICATION_AS_READ, DELETE_NOTIFICATION}, i \in FrameIds}
    \cup {[BaseFrame(TOGGLE_NOTIFICATION_STATUS) EXCEPT !.enable = e] : e \in BOOLEAN}

\* The outcomes of the collaborator calls of one handler (TRUE: the call succeeds).
AllOk ==
    [persist |-> TRUE, findAll |-> TRUE, get |-> TRUE, cfgFind |-> TRUE, cfgCreate |-> TRUE,
     cfgUpdate |-> TRUE, set |-> TRUE, cfgFind2 |-> TRUE, get2 |-> TRUE]

sendAllNotificationsToClient(S, clientId, o, wok) ==
    LET S1 == Call(S, "FindAll", ~o.findAll)
    IN  IF S1.err
        THEN S1
        ELSE SendNotificationListToUser(S1, clientId,
                 [event |-> LIST_NOTIFICATIONS, userID |-> clientId, data |-> FindAll(S, clientId)],
                 o.get, wok)

sendConfigurationsToClient(S, clientId, o, wok) ==
    LET f == FindByAppAndUser(S, clientId, o.cfgFind2)
        S1 == Call(S, "Configuration.Find", f.err)
    IN  IF f.err
        THEN S1
        ELSE SendConfigurationToUser(S1,
                 [event |-> LIST_CONFIGURATIONS, userID |-> clientId,
                  data |-> [id |-> f.Id, userId |-> clientId,
                            enableNotification |-> f.EnableNotification]],
                 TRUE, o.get2, wok)

\* an action that returns when its persistence call fails
markAsReadAction_StopOnError(S, clientID, o, wok) ==
    LET S1 == MarkAsRead(S, clientID, o.persist)
    IN  IF S1.err THEN S1 ELSE sendAllNotificationsToClient(S1, clientID, o, wok)

\* the eight actions: the persistence call, then the resend, whatever the call returned
markAsReadAction(S, clientID, o, wok) ==
    sendAllNotificationsToClient(MarkAsRead(S, clientID, o.persist), clientID, o, wok)

\* an action that goes on after its payload failed to decode
markAppReadAction_NoDecodeCheck(S, f, clientID, o, wok) ==
    sendAllNotificationsToClient(
        MarkAppAsRead(S, clientID, f.appId, o.persist), clientID, o, wok)

markAppReadAction(S, f, clientID, o, wok) ==
    IF ~f.payloadOk THEN S
    ELSE sendAllNotificationsToClient(
             MarkAppAsRead(S, clientID, f.appId, o.persist), clientID, o, wok)

markGroupAsReadAction(S, f, clientID, o, wok) ==
    IF ~f.payloadOk THEN S
    ELSE sendAllNotificationsToClient(
             MarkGroupAsRead(S, clientID, f.appId, f.groupKey, o.persist), clientID, o, wok)

markNotificationAsReadAction(S, f, clientID, o, wok) ==
    IF ~f.payloadOk THEN S
    ELSE sendAllNotificationsToClient(
             MarkNotificationAsRead(S, clientID, f.id, o.persist), clientID, o, wok)

deleteNotificationsAction(S, clientID, o, wok) ==
    sendAllNotificationsToClient(DeleteNotifications(S, clientID, o.persist), clientID, o, wok)

deleteAppNotificationsAction(S, f, clientID, o, wok) ==
    IF ~f.payloadOk THEN S
    ELSE sendAllNotificationsToClient(
             DeleteAppNotifications(S, clientID, f.appId, o.persist), clientID, o, wok)

deleteGroupNotificationAction(S, f, clientID, o, wok) ==
    IF ~f.payloadOk THEN S
    ELSE sendAllNotificationsToClient(
             DeleteGroupNotifications(S, clientID, f.appId, f.groupKey, o.persist), clientID, o, wok)

deleteNotificationAction(S, f, clientID, o, wok) ==
    IF ~f.payloadOk THEN S
    ELSE sendAllNotificationsToClient(
             DeleteNotification(S, clientID, f.id, o.persist), clientID, o, wok)

\* a toggle that sends the configuration before the list
toggleNotificationStatusAction_ConfigFirst(S, f, clientID, o, wok) ==
    IF ~f.payloadOk THEN S
    ELSE LET S1 == UpdateConfiguration(S, clientID, f.enable, o.cfgUpdate)
             S2 == UpdateClientInfo(S1, ClientInfo(clientID, 0, f.enable), o.set)
             S3 == sendConfigurationsToClient(S2, clientID, o, wok)
         IN  IF f.enable THEN sendAllNotificationsToClient(S3, clientID, o, wok) ELSE S3

toggleNotificationStatusAction(S, f, clientID, o, wok) ==
    IF ~f.payloadOk THEN S
    ELSE LET S1 == UpdateConfiguration(S, clientID, f.enable, o.cfgUpdate)
             S2 == UpdateClientInfo(S1, ClientInfo(clientID, 0, f.enable), o.set)
             S3 == IF f.enable THEN sendAllNotificationsToClient(S2, clientID, o, wok) ELSE S2
         IN  sendConfigurationsToClient(S3, clientID, o, wok)

\* a default branch that resends the list
unknownEvent_Reload(S, f, clientID, o, wok) == sendAllNotificationsToClient(S, clientID, o, wok)

\* the default branch of the switch: a warning is logged
unknownEvent(S, f, clientID, o, wok) == S

\* the body of the read loop for one message: json.Unmarshal into data.Event,
\* then the switch on event.Event
Dispatch(S, f, clientID, o, wok) ==
    IF ~f.parses THEN S
    ELSE CASE f.event = MARK_AS_READ -> markAsReadAction(S, clientID, o, wok)
           [] f.event = MARK_APP_AS_READ -> markAppReadAction(S, f, clientID, o, wok)
           [] f.event = MARK_GROUP_AS_READ -> markGroupAsReadAction(S, f, clientID, o, wok)
           [] f.event = MARK_NOTIFICATION_AS_READ ->
                  markNotificationAsReadAction(S, f, clientID, o, wok)
           [] f.event = DELETE_NOTIFICATIONS -> deleteNotificationsAction(S, clientID, o, wok)
           [] f.event = DELETE_APP_NOTIFICATIONS ->
                  deleteAppNotificationsAction(S, f, clientID, o, wok)
           [] f.event = DELETE_GROUP_NOTIFICATIONS ->
                  deleteGroupNotificationAction(S, f, clientID, o, wok)
           [] f.event = DELETE_NOTIFICATION -> deleteNotificationAction(S, f, clientID, o, wok)
           [] f.event = RELOAD_NOTIFICATIONS -> sendAllNotificationsToClient(S, clientID, o, wok)
           [] f.event = TOGGLE_NOTIFICATION_STATUS ->
                  toggleNotificationStatusAction(S, f, clientID, o, wok)
           [] OTHER -> unknownEvent(S, f, clientID, o, wok)

\* a connection handler that sends the configuration before the list
HandleConnection_ConfigFirst(S, c, clientID, o, wok) ==
    LET f == FindByAppAndUser(S, clientID, o.cfgFind)
        S0 == Call(S, "Configuration.Find", f.err)
        S1 == IF f.err THEN CreateConfiguration(S0, clientID, TRUE, o.cfgCreate) ELSE S0
        isEnableNotification == IF f.err THEN TRUE ELSE f.EnableNotification
        S2 == StoreClient(S1, ClientInfo(clientID, c, isEnableNotification), c, o.set)
        S3 == sendConfigurationsToClient(S2, clientID, o, wok)
        S4 == sendAllNotificationsToClient(S3, clientID, o, wok)
    IN  IF f.err /\ S1.err THEN [S |-> S1, stage |-> "createFailed"]
        ELSE IF S2.err THEN [S |-> S2, stage |-> "storeFailed"]
        ELSE [S |-> S4, stage |-> "streaming"]

\* The connection handler after the upgrade: fetch or create the configuration,
\* register, send the list and the configuration.  stage tells where it returned.
HandleConnection(S, c, clientID, o, wok) ==
    LET f == FindByAppAndUser(S, clientID, o.cfgFind)
        S0 == Call(S, "Configuration.Find", f.err)
        S1 == IF f.err THEN CreateConfiguration(S0, clientID, TRUE, o.cfgCreate) ELSE S0
        isEnableNotification == IF f.err THEN TRUE ELSE f.EnableNotification
        S2 == StoreClient(S1, ClientInfo(clientID, c, isEnableNotification), c, o.set)
        S3 == sendAllNotificationsToClient(S2, clientID, o, wok)
        S4 == sendConfigurationsToClient(S3, clientID, o, wok)
    IN  IF f.err /\ S1.err THEN [S |-> S1, stage |-> "createFailed"]
        ELSE IF S2.err THEN [S |-> S2, stage |-> "storeFailed"]
        ELSE [S |-> S4, stage |-> "streaming"]

\* ------------------------------------------------- event-hub consumer (part_004)
\* the callback of hub.Receive for one event
OnEventReceived(S, payload, decodes, o, wok) ==
    IF ~decodes THEN S
    ELSE LET S1 == Create(S, Doc(payload.userId, payload.appId, payload.groupKey), o.persist)
         IN  IF S1.err THEN S1
             ELSE SendNotificationToUser(S1,
                      [event |-> NEW_NOTIFICATION, userID |-> payload.userId,
                       data |-> Len(S1.notifs)],
                      o.get, wok)

\* the answers of the REST endpoint
StatusCreated == "201 Created"
StatusBadRequest == "400 Bad Request"
StatusInternalServerError == "500 Internal Server Error"

\* a controller that pushes before it looks at the result of the insert
CreateNotification_PushFirst(S, userId, appId, groupKey, valid, o, wok) ==
    IF userId = "" \/ appId = "" \/ ~valid THEN [S EXCEPT !.out = StatusBadRequest]
    ELSE LET S1 == Create(S, Doc(userId, appId, groupKey), o.persist)
             S2 == SendNotificationToUser(S1,
                      [event |-> NEW_NOTIFICATION, userID |-> userId, data |-> Len(S1.notifs)],
                      o.get, wok)
         IN  [S2 EXCEPT !.out = IF S1.err THEN StatusInternalServerError ELSE StatusCreated]

\* POST of a notification: the headers and the body are checked, the
\* notification is inserted, then pushed; the result of the push is not looked at
CreateNotification(S, userId, appId, groupKey, valid, o, wok) ==
    IF userId = "" \/ appId = "" \/ ~valid THEN [S EXCEPT !.out = StatusBadRequest]
    ELSE LET S1 == Create(S, Doc(userId, appId, groupKey), o.persist)
         IN  IF S1.err THEN [S1 EXCEPT !.out = StatusInternalServerError]
             ELSE [SendNotificationToUser(S1,
                      [event |-> NEW_NOTIFICATION, userID |-> userId, data |-> Len(S1.notifs)],
                      o.get, wok)
                   EXCEPT !.out = StatusCreated]

\* a callback that returns the error of a failed decode or insert
OnEventReturn_ErrorOnFailure(S, decodes) == IF ~decodes \/ S.err THEN "error" ELSE "nil"

\* what the callback returns to hub.Receive: nil on every path, also after a
\* decode or persistence failure (S: the handler's state at its return)
OnEventReturn(S, decodes) == "nil"

\* The users whose notifications are off by their own request, after the frame
\* f of a session of user u was handled (S: the handler's state at its return):
\* a toggle to off that made both of its updates puts u in, a toggle to on
\* takes u out.
Toggled(m, f, u, S) ==
    IF ~f.parses \/ ~f.payloadOk \/ f.event # TOGGLE_NOTIFICATION_STATUS THEN m
    ELSE IF f.enable THEN m \ {u}
    ELSE IF ~S.calls[1].err /\ ~S.calls[2].err THEN m \cup {u}
    ELSE m

\* ------------------------------------------------------------- actions
\* the outcome records in which only the calls named in rel may fail
Outcomes(rel) ==
    {[k \in DOMAIN AllOk |-> IF k \in rel THEN b[k] ELSE TRUE] : b \in [rel -> BOOLEAN]}

FrameCalls(f) ==
    IF ~f.parses \/ ~f.payloadOk \/ f.event \notin ClientEvents THEN {}
    ELSE IF f.event \in MutationEvents THEN {"persist", "findAll", "get"}
    ELSE IF f.event = RELOAD_NOTIFICATIONS THEN {"findAll", "get"}
    ELSE IF f.enable THEN {"cfgUpdate", "set", "findAll", "get", "cfgFind2", "get2"}
    ELSE {"cfgUpdate", "set", "cfgFind2", "get2"}

\* Outcome records that differ only in a call the handler never reaches give the
\* same step; one of them is kept.
Reached(o) == (~o.findAll => o.get) /\ (~o.cfgFind2 => o.get2)
ReachedConnect(o, u) ==
    LET findErr == ~o.cfgFind \/ Len(cfgs[u]) = 0
        rest == o.set /\ o.findAll /\ o.get /\ o.cfgFind2 /\ o.get2
    IN  /\ Reached(o)
        /\ Len(cfgs[u]) = 0 => o.cfgFind
        /\ ~findErr => o.cfgCreate
        /\ findErr /\ ~o.cfgCreate => rest
        /\ ~o.set => o.findAll /\ o.cfgFind2

FreeConn == {c \in Conns : conn[c].ping = "none"}
\* the connection of a handler that serves none: MaxConns - MaxConns, outside Conns
NoConn == MaxConns - MaxConns

Result(op, c, u, f, S) ==
    [op |-> op, conn |-> c, user |-> u, frame |-> f,
     calls |-> S.calls, sends |-> S.sends, wlog |-> S.wlog, held |-> S.held,
     part |-> "", out |-> S.out]

\* no handler has run since the trace was last read
Idle == [op |-> "idle", conn |-> NoConn, user |-> "", frame |-> NoFrame,
         calls |-> <<>>, sends |-> <<>>, wlog |-> <<>>, held |-> <<>>,
         part |-> "", out |-> ""]

\* a goroutine outside every registry operation and every write
IdleTask == [pc |-> "idle", user |-> "", c |-> NoConn, conns |-> <<>>, i |-> 0, active |-> <<>>]

Commit(S) ==
    /\ clients' = S.clients
    /\ rdb' = S.rdb
    /\ notifs' = S.notifs
    /\ cfgs' = S.cfgs

Init ==
    /\ clients = [u \in {} |-> <<>>]
    /\ rdb = [u \in {} |-> ClientInfo("", 0, FALSE)]
    /\ notifs = <<>>
    /\ cfgs = [u \in Users |-> <<>>]
    /\ conn = [c \in Conns |-> [user |-> "", sess |-> "none", ping |-> "none",
                                open |-> FALSE, up |-> FALSE]]
    /\ readers = [p \in Partitions |-> "running"]
    /\ muted = {}
    /\ tasks = [t \in Tasks |-> IdleTask]
    /\ peer = [u \in {} |-> <<>>]
    /\ hub = [ctx |-> "live", client |-> "open"]
    /\ last = Idle

\* upgrader.Upgrade with CheckOrigin: the Origin header has to be one of the
\* allowed origins; an absent header reads as "" and is not one of them
Upgrade(S, reason) == [S EXCEPT !.out = IF reason = "origin" THEN "not upgraded" ELSE "upgraded"]

\* A request the handler turns away: the origin check of the upgrade fails, or
\* the userId query parameter is missing (after the upgrade; the connection is closed).
Reject(reason) ==
    /\ last = Idle
    /\ \E S \in {Upgrade(Start, reason)} :
          last' = [Result("reject", NoConn, "", NoFrame, S) EXCEPT
                      !.user = reason,
                      !.out = IF S.out = "upgraded" THEN "upgraded, closed" ELSE @]
    /\ UNCHANGED <<clients, rdb, notifs, cfgs, conn, readers, muted, tasks, peer, hub>>

\* An accepted request for user u on the next connection: the keepalive task is
\* started, then HandleConnection runs; the read loop starts when it gets through.
Connect(u, o) ==
    /\ last = Idle
    /\ FreeConn # {}
    /\ ReachedConnect(o, u)
    /\ LET c == CHOOSE x \in FreeConn : \A y \in FreeConn : x <= y
       IN  \E h \in {HandleConnection(Start, c, u, o, Writable \cup {c})} :
              /\ Len(h.S.cfgs[u]) <= MaxCfgRows
              /\ Commit(h.S)
              /\ conn' = [conn EXCEPT ![c] =
                             [user |-> u,
                              sess |-> IF h.stage = "streaming" THEN "streaming" ELSE "closed",
                              ping |-> "running",
                              open |-> h.stage = "streaming",
                              up |-> h.stage = "streaming"]]
              /\ last' = Result("connect", c, u, NoFrame, h.S)
              /\ UNCHANGED <<readers, muted, tasks, peer, hub>>

\* the read loop of connection c reads one message
ReadMessage(c, f, o) ==
    /\ last = Idle
    /\ conn[c].sess = "streaming"
    /\ conn[c].open
    /\ Reached(o)
    /\ \E S \in {Dispatch(Start, f, conn[c].user, o, Writable)} :
          /\ Commit(S)
          /\ muted' = Toggled(muted, f, conn[c].user, S)
          /\ UNCHANGED <<conn, readers, tasks, peer, hub>>
          /\ last' = Result("frame", c, conn[c].user, f, S)

\* a read loop that unregisters the handle and leaves the connection open
ReadError_NoClose(c, delOk) ==
    /\ last = Idle
    /\ conn[c].sess = "streaming"
    /\ \E S \in {RemoveConnection(Start, conn[c].user, c, delOk)} :
          /\ Commit(S)
          /\ conn' = [conn EXCEPT ![c].sess = "closed"]
          /\ last' = Result("readError", c, conn[c].user, NoFrame, S)
          /\ UNCHANGED <<readers, muted, tasks, peer, hub>>

\* ReadMessage returns an error: the client went away, the read deadline
\* passed, or the connection was closed locally
ReadError(c, delOk) ==
    /\ last = Idle
    /\ conn[c].sess = "streaming"
    /\ \E S \in {RemoveConnection(Start, conn[c].user, c, delOk)} :
          /\ Commit(S)
          /\ conn' = [conn EXCEPT ![c].sess = "closed", ![c].open = FALSE, ![c].up = FALSE]
          /\ last' = Result("readError", c, conn[c].user, NoFrame, S)
          /\ UNCHANGED <<readers, muted, tasks, peer, hub>>

\* a keepalive task that unregisters the handle and leaves the connection open
Ping_NoClose(c, delOk) ==
    /\ last = Idle
    /\ conn[c].ping = "running"
    /\ IF c \in Writable
       THEN /\ last' = Result("ping", c, conn[c].user, NoFrame, Start)
            /\ UNCHANGED <<clients, rdb, notifs, cfgs, conn, readers, muted, tasks, peer, hub>>
       ELSE \E S \in {RemoveConnection(Start, conn[c].user, c, delOk)} :
               /\ Commit(S)
               /\ conn' = [conn EXCEPT ![c].ping = "stopped"]
               /\ last' = Result("pingFailed", c, conn[c].user, NoFrame, S)
               /\ UNCHANGED <<readers, muted, tasks, peer, hub>>

\* a keepalive task that closes the connection and leaves the handle registered
Ping_KeepHandle(c, delOk) ==
    /\ last = Idle
    /\ conn[c].ping = "running"
    /\ IF c \in Writable
       THEN /\ last' = Result("ping", c, conn[c].user, NoFrame, Start)
            /\ UNCHANGED <<clients, rdb, notifs, cfgs, conn, readers, muted, tasks, peer, hub>>
       ELSE /\ conn' = [conn EXCEPT ![c].ping = "stopped", ![c].open = FALSE, ![c].up = FALSE]
            /\ last' = Result("pingFailed", c, conn[c].user, NoFrame, Start)
            /\ UNCHANGED <<clients, rdb, notifs, cfgs, readers, muted, tasks, peer, hub>>

\* the keepalive task of connection c writes a ping
Ping(c, delOk) ==
    /\ last = Idle
    /\ conn[c].ping = "running"
    /\ IF c \in Writable
       THEN /\ last' = Result("ping", c, conn[c].user, NoFrame, Start)
            /\ UNCHANGED <<clients, rdb, notifs, cfgs, conn, readers, muted, tasks, peer, hub>>
       ELSE \E S \in {RemoveConnection(Start, conn[c].user, c, delOk)} :
               /\ Commit(S)
               /\ conn' = [conn EXCEPT ![c].ping = "stopped", ![c].open = FALSE, ![c].up = FALSE]
               /\ last' = Result("pingFailed", c, conn[c].user, NoFrame, S)
               /\ UNCHANGED <<readers, muted, tasks, peer, hub>>

\* the network path of an open connection breaks: writes on it fail from now on
Break(c) ==
    /\ last = Idle
    /\ c \in Writable
    /\ conn' = [conn EXCEPT ![c].up = FALSE]
    /\ last' = Result("break", c, conn[c].user, NoFrame, Start)
    /\ UNCHANGED <<clients, rdb, notifs, cfgs, readers, muted, tasks, peer, hub>>

\* the receive loop of partition p gets one event and calls the callback; the
\* loop goes on when the callback returns nil
Ingest(p, u, a, g, decodes, o) ==
    /\ last = Idle
    /\ readers[p] = "running"
    /\ hub = [ctx |-> "live", client |-> "open"]
    /\ Len(notifs) < MaxNotif
    /\ \E S \in {OnEventReceived(Start, [userId |-> u, appId |-> a, groupKey |-> g],
                                decodes, o, Writable)} :
          /\ Commit(S)
          /\ readers' = [readers EXCEPT ![p] =
                            IF OnEventReturn(S, decodes) = "nil" THEN @ ELSE "stopped"]
          /\ last' = [Result("event", NoConn, u, [NoFrame EXCEPT !.parses = decodes], S)
                         EXCEPT !.part = p]
          /\ UNCHANGED <<conn, muted, tasks, peer, hub>>

\* the groupKey of a decoded event; a JSON object without the field decodes to ""
EventGroups == Groups \cup {""}

\* the REST endpoint gets a request; an absent header reads as ""
Post(u, a, g, valid, o) ==
    /\ last = Idle
    /\ Len(notifs) < MaxNotif
    /\ \E S \in {CreateNotification(Start, u, a, g, valid, o, Writable)} :
          /\ Commit(S)
          /\ last' = Result("rest", NoConn, u, [NoFrame EXCEPT !.parses = valid], S)
          /\ UNCHANGED <<conn, readers, muted, tasks, peer, hub>>

\* The trace of the handler that ran is dropped; the next handler starts.  The
\* handlers are steps of different goroutines; each runs to its end here.
Return ==
    /\ last # Idle
    /\ last' = Idle
    /\ UNCHANGED <<clients, rdb, notifs, cfgs, conn, readers, muted, tasks, peer, hub>>

\* The environment of a run: the users that connect, the frames clients send,
\* and the collaborator calls that may fail.
Env(users, frames, faults) == [users |-> users, frames |-> frames, faults |-> faults]

NextIn(E) ==
    \/ \E r \in {"origin", "userId"} : Reject(r)
    \/ \E u \in E.users :
          \E o \in Outcomes(E.faults \cap
                     {"cfgFind", "cfgCreate", "set", "findAll", "get", "cfgFind2", "get2"}) :
             Connect(u, o)
    \/ \E c \in Conns, f \in E.frames :
          \E o \in Outcomes(E.faults \cap FrameCalls(f)) : ReadMessage(c, f, o)
    \/ \E c \in Conns, delOk \in {TRUE} \cup {"del" \notin E.faults} : ReadError(c, delOk)
    \/ \E c \in Conns, delOk \in {TRUE} \cup {"del" \notin E.faults} : Ping(c, delOk)
    \/ \E c \in Conns : Break(c)
    \/ \E p \in Partitions, u \in Users, a \in Apps, g \in EventGroups, decodes \in BOOLEAN :
          \E o \in {x \in Outcomes(E.faults \cap (IF decodes THEN {"persist", "get"} ELSE {})) :
                       ~x.persist => x.get} :
             Ingest(p, u, a, g, decodes, o)
    \/ \E u \in Users \cup {""}, a \in Apps \cup {""}, g \in Groups, valid \in BOOLEAN :
          \E o \in {x \in Outcomes(E.faults \cap (IF valid /\ u # "" /\ a # ""
                                                   THEN {"persist", "get"} ELSE {})) :
                       ~x.persist => x.get} :
             Post(u, a, g, valid, o)
    \/ Return

AllFaults == DOMAIN AllOk \cup {"del"}

\* the users that open connections; the other user only owns notifications
ConnUsers == {"u1"}

Next == NextIn(Env(ConnUsers, Frames, AllFaults))

Spec == Init /\ [][Next]_vars

\* The runs in which the goroutines of a connection get their turns.  The
\* keepalive task writes a ping at every tick of its 30 s ticker for as long as
\* it runs, and a ReadMessage that is blocked on a closed connection returns
\* its error; a handler that started returns.  A client that goes away on its
\* own account (ReadError on an open connection) is under no obligation.
PingTick(c) == \E delOk \in BOOLEAN : Ping(c, delOk)
ClosedRead(c) == \E delOk \in BOOLEAN : ~conn[c].open /\ ReadError(c, delOk)
Fairness ==
    /\ WF_vars(Return)
    /\ \A c \in Conns : SF_vars(PingTick(c)) /\ SF_vars(ClosedRead(c))

\* the environment of the fair runs: one kind of frame, Redis deletes may fail
LiveFrames == {BaseFrame(RELOAD_NOTIFICATIONS)}
LiveNext == NextIn(Env(ConnUsers, LiveFrames, {"del"}))
LiveSpec == Init /\ [][LiveNext]_vars /\ Fairness

\* ------------------------------------------------------------- two instances
\* A second instance of the service runs the same handlers on its own registry
\* map and on the same Redis and Mongo.  Its connections are healthy; only its
\* registry is kept.
PeerConns == {MaxConns + 1}
Here(S) == [S EXCEPT !.clients = peer]

\* the second instance accepts a connection of user u on its handle c
PeerConnect(u, c) ==
    /\ last = Idle
    /\ \A x \in DOMAIN peer : c \notin Elems(peer[x])
    /\ \E h \in {HandleConnection(Here(Start), c, u, AllOk, {c})} :
          /\ peer' = h.S.clients
          /\ rdb' = h.S.rdb
          /\ cfgs' = h.S.cfgs
    /\ UNCHANGED <<clients, notifs, conn, readers, muted, tasks, hub, last>>

\* the client of handle c of the second instance goes away
PeerReadError(u, c) ==
    /\ last = Idle
    /\ u \in DOMAIN peer
    /\ c \in Elems(peer[u])
    /\ \E S \in {RemoveConnection(Here(Start), u, c, TRUE)} :
          /\ peer' = S.clients
          /\ rdb' = S.rdb
    /\ UNCHANGED <<clients, notifs, cfgs, conn, readers, muted, tasks, hub, last>>

PeerNext ==
    \/ NextIn(Env(ConnUsers, LiveFrames, {}))
    \/ \E u \in ConnUsers, c \in PeerConns : PeerConnect(u, c)
    \/ \E u \in ConnUsers, c \in PeerConns : PeerReadError(u, c)

PeerSpec == Init /\ [][PeerNext]_vars

\* ------------------------------------------------------------- shutdown
\* The callback of partition p has not returned yet (its trace is still in last).
InCallback(p) == last.op = "event" /\ last.part = p

\* main receives SIGINT or SIGTERM and calls cancel()
Signal ==
    /\ hub.ctx = "live"
    /\ hub' = [hub EXCEPT !.ctx = "cancelled"]
    /\ UNCHANGED <<clients, rdb, notifs, cfgs, conn, readers, muted, tasks, peer, last>>

\* StartEventHubConsumer returns from <-ctx.Done() and calls hub.Close; it
\* waits for nothing
HubClose ==
    /\ hub = [ctx |-> "cancelled", client |-> "open"]
    /\ hub' = [hub EXCEPT !.client = "closed"]
    /\ UNCHANGED <<clients, rdb, notifs, cfgs, conn, readers, muted, tasks, peer, last>>

\* the receive loop of partition p sees the cancelled context, or the closed
\* client, once its callback has returned, and ends
ReaderStop(p) ==
    /\ readers[p] = "running"
    /\ hub.ctx = "cancelled"
    /\ ~InCallback(p)
    /\ readers' = [readers EXCEPT ![p] = "stopped"]
    /\ UNCHANGED <<clients, rdb, notifs, cfgs, conn, muted, tasks, peer, hub, last>>

StopNext ==
    \/ NextIn(Env(ConnUsers, LiveFrames, {}))
    \/ Signal
    \/ HubClose
    \/ \E p \in Partitions : ReaderStop(p)

StopSpec == Init /\ [][StopNext]_vars

\* ------------------------------------------------------------- goroutines
\* The registry operations statement by statement, for goroutines that run
\* side by side.  clientsMutex is a sync.RWMutex: Lock waits until no goroutine
\* holds it in either mode, RLock until no goroutine holds it for writing.
\* pc of a task: the statement it executes next.
HoldsW(t) == tasks[t].pc \in {"store.append", "remove.edit"}
HoldsR(t) == tasks[t].pc \in {"send.get", "send.write", "send.inwrite", "send.assign"}
CanLock(t) == \A x \in Tasks \ {t} : ~HoldsW(x) /\ ~HoldsR(x)
CanRLock(t) == \A x \in Tasks \ {t} : ~HoldsW(x)
Goto(t, rec) ==
    /\ tasks' = [tasks EXCEPT ![t] = rec]
    /\ UNCHANGED <<rdb, notifs, cfgs, conn, readers, muted, peer, hub, last>>

\* StoreClient: clientsMutex.Lock()
StoreClientLock(t, u, c) ==
    /\ tasks[t].pc = "idle"
    /\ \A x \in DOMAIN clients : c \notin Elems(clients[x])
    /\ CanLock(t)
    /\ Goto(t, [IdleTask EXCEPT !.pc = "store.append", !.user = u, !.c = c])
    /\ UNCHANGED clients

\* StoreClient: clients[info.ID] = append(clients[info.ID], conn); Unlock()
StoreClientAppend(t) ==
    /\ tasks[t].pc = "store.append"
    /\ clients' = StoreClient(Start, ClientInfo(tasks[t].user, tasks[t].c, TRUE),
                              tasks[t].c, TRUE).clients
    /\ Goto(t, IdleTask)

\* RemoveConnection: clientsMutex.Lock(), from the read loop or after a failed ping
RemoveConnectionLock(t, u, c) ==
    /\ \/ tasks[t].pc = "idle"
       \/ tasks[t].pc = "ping.failed" /\ tasks[t].user = u /\ tasks[t].c = c
    /\ CanLock(t)
    /\ Goto(t, [IdleTask EXCEPT !.pc = "remove.edit", !.user = u, !.c = c])
    /\ UNCHANGED clients

\* RemoveConnection: the entry is filtered, stored or deleted; deferred Unlock()
RemoveConnectionEdit(t) ==
    /\ tasks[t].pc = "remove.edit"
    /\ clients' = RemoveConnection(Start, tasks[t].user, tasks[t].c, TRUE).clients
    /\ Goto(t, IdleTask)

\* sendToUser: clientsMutex.RLock()
SendRLock(t, u) ==
    /\ tasks[t].pc = "idle"
    /\ CanRLock(t)
    /\ Goto(t, [IdleTask EXCEPT !.pc = "send.get", !.user = u])
    /\ UNCHANGED clients

\* sendToUser: getConnAndInfo reads clients[userID]; pass: the ClientInfo read
\* succeeds and the gate lets the payload through; otherwise deferred RUnlock()
SendGet(t, pass) ==
    /\ tasks[t].pc = "send.get"
    /\ IF tasks[t].user \in DOMAIN clients /\ pass
       THEN Goto(t, [tasks[t] EXCEPT
                        !.pc = IF clients[tasks[t].user] = <<>> THEN "send.assign"
                               ELSE "send.write",
                        !.conns = clients[tasks[t].user], !.i = 1])
       ELSE Goto(t, IdleTask)
    /\ UNCHANGED clients

\* sendToUser: conn.WriteMessage on the next handle begins
SendBeginWrite(t) ==
    /\ tasks[t].pc = "send.write"
    /\ Goto(t, [tasks[t] EXCEPT !.pc = "send.inwrite", !.c = tasks[t].conns[tasks[t].i]])
    /\ UNCHANGED clients

\* sendToUser: conn.WriteMessage returns; a handle whose write failed is skipped
SendEndWrite(t, ok) ==
    /\ tasks[t].pc = "send.inwrite"
    /\ Goto(t, [tasks[t] EXCEPT
                    !.pc = IF tasks[t].i = Len(tasks[t].conns) THEN "send.assign"
                           ELSE "send.write",
                    !.c = NoConn,
                    !.i = @ + 1,
                    !.active = IF ok THEN Append(@, tasks[t].c) ELSE @])
    /\ UNCHANGED clients

\* sendToUser: clients[userID] = activeConns; deferred RUnlock()
SendAssign(t) ==
    /\ tasks[t].pc = "send.assign"
    /\ clients' = Put(clients, tasks[t].user, tasks[t].active)
    /\ Goto(t, IdleTask)

\* keepalive task: conn.WriteMessage(PingMessage) begins; no lock is taken.
\* A connection has one keepalive task.
PingBeginWrite(t, u, c) ==
    /\ tasks[t].pc = "idle"
    /\ \A x \in Tasks : tasks[x].pc \in {"ping.inwrite", "ping.failed"} => tasks[x].c # c
    /\ Goto(t, [IdleTask EXCEPT !.pc = "ping.inwrite", !.user = u, !.c = c])
    /\ UNCHANGED clients

\* keepalive task: the ping write returns; after a failure RemoveConnection follows
PingEndWrite(t, ok) ==
    /\ tasks[t].pc = "ping.inwrite"
    /\ Goto(t, IF ok THEN IdleTask ELSE [tasks[t] EXCEPT !.pc = "ping.failed"])
    /\ UNCHANGED clients

RaceNext ==
    \/ \E t \in Tasks, u \in ConnUsers, c \in Conns : StoreClientLock(t, u, c)
    \/ \E t \in Tasks : StoreClientAppend(t)
    \/ \E t \in Tasks, u \in ConnUsers, c \in Conns : RemoveConnectionLock(t, u, c)
    \/ \E t \in Tasks : RemoveConnectionEdit(t)
    \/ \E t \in Tasks, u \in ConnUsers : SendRLock(t, u)
    \/ \E t \in Tasks, pass \in BOOLEAN : SendGet(t, pass)
    \/ \E t \in Tasks : SendBeginWrite(t)
    \/ \E t \in Tasks, ok \in BOOLEAN : SendEndWrite(t, ok)
    \/ \E t \in Tasks : SendAssign(t)
    \/ \E t \in Tasks, u \in ConnUsers, c \in Conns : PingBeginWrite(t, u, c)
    \/ \E t \in Tasks, ok \in BOOLEAN : PingEndWrite(t, ok)

RaceSpec == Init /\ [][RaceNext]_vars

\* ------------------------------------------------------------- properties
\* The trace of the handler that just ran is in last.  Every handler makes its
\* Redis writes before its first send, so rdb is the Redis content every send of
\* the trace read; the registry entry each send found is in the trace.
SendIdx == 1..Len(last.sends)
\* the handles of the registry entry a send found (none when there was no entry)
Handles(s) == IF s.entry = <<>> THEN <<>> ELSE s.entry[1]
\* the handles a send wrote to, in order
Tried(s) == [i \in 1..Len(s.writes) |-> s.writes[i].conn]
\* the handles on which the write of a send succeeded, in order
Kept(s) ==
    LET okw == SelectSeq(s.writes, LAMBDA w : w.ok)
    IN  [i \in 1..Len(okw) |-> okw[i].conn]
\* the send found a registry entry and its read of the ClientInfo record succeeded
InfoRead(s) == s.entry # <<>> /\ s.res # ErrRedis
Enabled(u) == u \in DOMAIN rdb /\ rdb[u].EnableNotification
Disabled(u) == u \in DOMAIN rdb /\ ~rdb[u].EnableNotification

\* C1, as stated: a gated send attempts no write if and only if the user's
\* notificationsEnabled is false.
C1_GatedIffDisabled ==
    \A i \in SendIdx :
       LET s == last.sends[i]
       IN  ~s.bypass => ((s.writes = <<>>) <=> Disabled(s.user))

\* C1, amended: for a gated send to a user with a registry entry of at least one
\* handle whose ClientInfo read succeeds, no write is attempted if and only if
\* notificationsEnabled is false (the send returns notifications-disabled), and
\* with notificationsEnabled true every handle of the entry is written to; a
\* gated send also attempts no write when the user has no registry entry or the
\* ClientInfo read fails.
C1_GatedSend ==
    \A i \in SendIdx :
       LET s == last.sends[i]
       IN  ~s.bypass =>
             /\ ~InfoRead(s) => s.writes = <<>> /\ s.res \in {ErrNotConnected, ErrRedis}
             /\ InfoRead(s) /\ Len(Handles(s)) > 0 =>
                   /\ s.user \in DOMAIN rdb
                   /\ (s.writes = <<>>) <=> Disabled(s.user)
                   /\ Disabled(s.user) => s.res = ErrDisabled
                   /\ Enabled(s.user) => s.res = OK /\ Tried(s) = Handles(s)

\* a gated send found a handle and a readable ClientInfo with notifications off
C1_Witness ==
    \E i \in SendIdx :
       LET s == last.sends[i]
       IN  /\ ~s.bypass /\ InfoRead(s) /\ Len(Handles(s)) > 0
           /\ Disabled(s.user) /\ s.res = ErrDisabled /\ s.writes = <<>>

\* C2, as stated: a bypass send to a user with at least one live handle
\* attempts a write on every handle, whatever the ClientInfo record is: off,
\* missing or unreadable.
C2_BypassAlwaysWrites ==
    \A i \in SendIdx :
       LET s == last.sends[i]
       IN  s.bypass /\ Len(Handles(s)) > 0 => Tried(s) = Handles(s)

\* C9, as stated: a send to a user with no live handle on this instance returns
\* user-not-connected and writes to no socket.
C9_NoHandleNotConnected ==
    \A i \in SendIdx :
       LET s == last.sends[i]
       IN  Len(Handles(s)) = 0 => s.res = ErrNotConnected /\ s.writes = <<>>

\* one step of C10
C10_Step ==
    \A i \in 1..Len(last'.sends) :
       LET s == last'.sends[i]
       IN  /\ InfoRead(s) /\ (s.bypass \/ rdb'[s.user].EnableNotification) => s.res = OK
           /\ s.res = OK =>
                 /\ Tried(s) = Handles(s)
                 /\ IF i = Len(last'.sends)
                    THEN clients'[s.user] = Kept(s)
                    ELSE last'.sends[i + 1].entry = <<Kept(s)>>
                 /\ (\A k \in 1..Len(last'.calls) :
                        last'.calls[k].op \notin {"Redis.Set", "Redis.Del"}) => rdb' = rdb

\* C10: a send that passes lookup and gating returns ok whatever its writes do;
\* it writes to every handle of the entry, after a failed write too; the entry
\* it leaves holds exactly the handles whose write succeeded; the ClientInfo
\* record is not changed.
C10_WriteFailure == [][C10_Step]_vars

\* a send went on to write to a handle after the write to another one failed
C10_Witness ==
    \E i \in SendIdx :
       LET s == last.sends[i]
       IN  /\ s.res = OK
           /\ \E j, k \in 1..Len(s.writes) : j < k /\ ~s.writes[j].ok /\ s.writes[k].ok

\* ---- the session's handlers
FrameRan == last.op = "frame" /\ last.frame.parses
\* a mutation action ran and decoded its payload
MutationRan == FrameRan /\ last.frame.event \in MutationEvents /\ last.frame.payloadOk
ReloadRan == FrameRan /\ last.frame.event = RELOAD_NOTIFICATIONS
ToggleRan == FrameRan /\ last.frame.event = TOGGLE_NOTIFICATION_STATUS /\ last.frame.payloadOk
WriteIdx == 1..Len(last.wlog)
\* the unread notifications of a user in the store
Unread(u) == FindAll(Start, u)
\* the events written to a connection by the handler, in order
EventsOn(c) ==
    LET w == SelectSeq(last.wlog, LAMBDA x : x.conn = c)
    IN  [i \in 1..Len(w) |-> w[i].event]
\* the repository operation of each mutation action
PersistOp(ev) ==
    CASE ev = MARK_AS_READ -> "MarkAsRead"
      [] ev = MARK_APP_AS_READ -> "MarkAppAsRead"
      [] ev = MARK_GROUP_AS_READ -> "MarkGroupAsRead"
      [] ev = MARK_NOTIFICATION_AS_READ -> "MarkNotificationAsRead"
      [] ev = DELETE_NOTIFICATIONS -> "DeleteNotifications"
      [] ev = DELETE_APP_NOTIFICATIONS -> "DeleteAppNotifications"
      [] ev = DELETE_GROUP_NOTIFICATIONS -> "DeleteGroupNotifications"
      [] ev = DELETE_NOTIFICATION -> "DeleteNotification"
      [] OTHER -> ""

\* C3, as stated: each mutation action is followed by exactly one
\* listNotifications resend written to the invoking user, whether the
\* persistence call succeeds or fails and whatever notificationsEnabled is.
C3_AlwaysOneResend ==
    FrameRan /\ last.frame.event \in MutationEvents =>
       /\ Len(last.sends) = 1
       /\ last.sends[1].event = LIST_NOTIFICATIONS
       /\ last.sends[1].user = last.user
       /\ last.sends[1].res = OK
       /\ \E i \in WriteIdx : last.wlog[i].conn = last.conn

\* C3, amended: a mutation action whose payload decodes makes its persistence
\* call and then, whether that call succeeded or failed, exactly one fetch of
\* the unread list; when the fetch succeeds it makes exactly one gated
\* listNotifications send to the invoking user, and nothing else.  The list is
\* written, once per handle of the user's registry entry and with the unread
\* notifications of the store, if and only if the fetch succeeds, the user has
\* a registry entry with a handle, the ClientInfo read succeeds and
\* notificationsEnabled is true.
C3_MutationResend ==
    MutationRan =>
       LET c == last.calls
           u == last.user
       IN  /\ Len(c) \in {2, 3}
           /\ c[1].op = PersistOp(last.frame.event)
           /\ c[2].op = "FindAll"
           /\ Len(c) = 3 => c[3].op = "Redis.Get"
           /\ Len(last.sends) = IF c[2].err THEN 0 ELSE 1
           /\ \A i \in SendIdx :
                 LET s == last.sends[i]
                 IN  /\ s.event = LIST_NOTIFICATIONS /\ s.user = u /\ ~s.bypass
                     /\ (s.writes # <<>>) <=>
                           (InfoRead(s) /\ Len(Handles(s)) > 0 /\ Enabled(u))
                     /\ s.writes # <<>> => Tried(s) = Handles(s)
           /\ \A i \in WriteIdx :
                 /\ last.wlog[i].event = LIST_NOTIFICATIONS
                 /\ last.wlog[i].data = Unread(u)
           /\ \A x \in Conns : Len(EventsOn(x)) <= 1
           /\ last.wlog # <<>> => Len(last.sends) = 1

\* the persistence call of a mutation action failed and the list was written
\* to the connection the frame came from
C3_Witness ==
    /\ MutationRan
    /\ last.calls[1].err
    /\ \E i \in WriteIdx : last.wlog[i].conn = last.conn /\ last.wlog[i].ok

\* the user toggled notifications off and has an unread notification
ToggledOff(u) == Disabled(u) /\ cfgs[u] = <<FALSE>> /\ Unread(u) # {}

\* C4, as stated: after a user toggled notifications off and a notification
\* for the user was persisted, a reloadNotifications frame from the user is
\* answered with a listNotifications that contains the notification.
C4_ReloadAnswered ==
    ReloadRan /\ ToggledOff(last.user) =>
       \E i \in WriteIdx :
          /\ last.wlog[i].event = LIST_NOTIFICATIONS
          /\ last.wlog[i].conn = last.conn
          /\ Unread(last.user) \subseteq last.wlog[i].data

\* C4, amended: while notificationsEnabled is false a reloadNotifications frame
\* is answered with no message (the gated list send does not return ok); every
\* message a reload writes is a listNotifications that carries exactly the
\* user's unread notifications, those persisted while notifications were off
\* included.
C4_ReloadGated ==
    ReloadRan =>
       /\ Disabled(last.user) =>
             /\ last.wlog = <<>>
             /\ \A i \in SendIdx : last.sends[i].res # OK
             /\ \A i \in SendIdx :
                   InfoRead(last.sends[i]) => last.sends[i].res = ErrDisabled
       /\ \A i \in WriteIdx :
             /\ last.wlog[i].event = LIST_NOTIFICATIONS
             /\ last.wlog[i].data = Unread(last.user)

\* a reload of a user who toggled notifications off and has an unread
\* notification fetched the list and was refused by the gate
C4_Witness ==
    /\ ReloadRan
    /\ ToggledOff(last.user)
    /\ Len(last.sends) = 1
    /\ last.sends[1].res = ErrDisabled
    /\ last.wlog = <<>>

\* what a toggle is to write on a connection
ToggleEvents(enable) ==
    IF enable THEN <<LIST_NOTIFICATIONS, LIST_CONFIGURATIONS>> ELSE <<LIST_CONFIGURATIONS>>

Removal == last'.op \in {"readError", "pingFailed"} /\ last'.user \in DOMAIN clients
\* the handles of the user's entry other than the one being unregistered
Others == SelectSeq(clients[last'.user], LAMBDA x : x # last'.conn)

Ignored ==
    /\ UNCHANGED <<clients, rdb, notifs, cfgs, conn>>
    /\ last'.calls = <<>>
    /\ last'.sends = <<>>
    /\ last'.wlog = <<>>
    /\ conn'[last'.conn].sess = "streaming"
    /\ conn'[last'.conn].open

Malformed(f) == ~f.parses \/ (f.event \in PayloadEvents /\ ~f.payloadOk)

\* C8: a frame that fails to decode, envelope or payload, gets no reply, makes
\* no mutation and leaves the session streaming on an open connection, after
\* any number of such frames.
C8_MalformedFrame ==
    [][last'.op = "frame" /\ Malformed(last'.frame) => Ignored]_vars

\* the read loop read a frame whose payload failed to decode; the session is
\* still streaming
C8_Witness ==
    /\ last.op = "frame"
    /\ last.frame.parses
    /\ Malformed(last.frame)
    /\ conn[last.conn].sess = "streaming"
    /\ conn[last.conn].open

\* the step is a handler that ran RemoveConnection with a handle that is not
\* in the registry: the user has no entry, or the entry does not hold the handle
UnknownRemoval ==
    /\ last'.op \in {"readError", "pingFailed"}
    /\ \/ last'.user \notin DOMAIN clients
       \/ last'.conn \notin Elems(clients[last'.user])

\* C11, as stated: RemoveConnection of a handle that is not in the user's live
\* set is a no-op, in every reachable registry state: the registry map and the
\* ClientInfo record are unchanged (so a second RemoveConnection of the same
\* handle changes nothing).
C11_UnknownHandleNoOp ==
    [][UnknownRemoval => clients' = clients /\ rdb' = rdb]_vars

\* a connection was accepted and registered: its session is streaming
ConnectOk == last.op = "connect" /\ conn[last.conn].sess = "streaming"
\* no call of the handler after its first one failed
NoLaterFault == \A k \in 2..Len(last.calls) : ~last.calls[k].err

C12_Sent ==
    ConnectOk =>
       /\ last.user \in DOMAIN rdb
       /\ \A x \in Conns :
             EventsOn(x) \in {<<>>, <<LIST_NOTIFICATIONS>>, <<LIST_CONFIGURATIONS>>,
                              <<LIST_NOTIFICATIONS, LIST_CONFIGURATIONS>>}
       /\ \A i \in SendIdx :
             /\ last.sends[i].user = last.user
             /\ last.sends[i].bypass <=> last.sends[i].event = LIST_CONFIGURATIONS
       /\ \A i \in WriteIdx :
             /\ last.wlog[i].event = LIST_NOTIFICATIONS => last.wlog[i].data = Unread(last.user)
             /\ last.wlog[i].event = LIST_CONFIGURATIONS =>
                   last.wlog[i].data.enableNotification = cfgs[last.user][1]
       /\ Disabled(last.user) => \A i \in WriteIdx : last.wlog[i].event # LIST_NOTIFICATIONS
       /\ NoLaterFault =>
             EventsOn(last.conn) = ToggleEvents(Enabled(last.user))

MarkOnlyUnread ==
    /\ FrameRan' /\ last'.frame.event = MARK_NOTIFICATION_AS_READ /\ last'.frame.payloadOk
    /\ Unread(last'.user) = {last'.frame.id}
    /\ Enabled(last'.user)
    /\ last'.user \in DOMAIN clients
    /\ last'.conn \in Elems(clients[last'.user])
    /\ ~last'.calls[1].err
\* the handler wrote a listNotifications with an empty list to its connection
EmptyListSent ==
    \E i \in WriteIdx :
       /\ last.wlog[i].event = LIST_NOTIFICATIONS
       /\ last.wlog[i].conn = last.conn
       /\ last.wlog[i].data = {}
\* every list the handler wrote is the set of the user's unread notifications
ListsAreUnread ==
    \A i \in WriteIdx :
       last.wlog[i].event = LIST_NOTIFICATIONS => last.wlog[i].data = Unread(last.user)

EventPersisted ==
    /\ last.op = "event" /\ last.frame.parses
    /\ last.calls # <<>> /\ last.calls[1].op = "Create" /\ ~last.calls[1].err
\* the newest document of the collection is an unread notification of user u
NewestUnreadOf(u) ==
    /\ notifs # <<>>
    /\ notifs[Len(notifs)].userId = u
    /\ ~notifs[Len(notifs)].readStatus
    /\ ~notifs[Len(notifs)].gone

\* C14: for a persisted upstream event whose target user has
\* notificationsEnabled false, no newNotification is written to any
\* connection, and the notification is in the store, unread.
C14_GatedPush ==
    EventPersisted /\ Disabled(last.user) =>
       /\ last.wlog = <<>>
       /\ \A i \in SendIdx : last.sends[i].writes = <<>> /\ last.sends[i].res # OK
       /\ NewestUnreadOf(last.user)
       /\ Len(notifs) \in Unread(last.user)

\* an event for a user with a writable connection and notifications off was
\* persisted and refused by the gate
C14_Witness ==
    /\ EventPersisted
    /\ Disabled(last.user)
    /\ last.user \in DOMAIN clients
    /\ Elems(clients[last.user]) \cap Writable # {}
    /\ Len(last.sends) = 1
    /\ last.sends[1].res = ErrDisabled
    /\ NewestUnreadOf(last.user)

\* an upstream event whose decode or whose insert failed
EventDropped == last.op = "event" /\ ~EventPersisted
\* the newNotification frames written by the handler
NewNotificationWrites == {i \in 1..Len(last.wlog) : last.wlog[i].event = NEW_NOTIFICATION}

\* C15: an event that fails to decode or to persist is dropped without any
\* push and without a change of any store; a newNotification is written only
\* for a persisted notification and carries the id of the persisted document;
\* the processing of an event, failed or not, stops no partition reader and
\* leaves the reader of every partition as it was.
C15_PartitionReader ==
    [][last'.op = "event" =>
         /\ readers' = readers
         /\ \A p \in Partitions : readers'[p] = "running"
         /\ EventDropped' =>
              /\ last'.sends = <<>> /\ last'.wlog = <<>>
              /\ UNCHANGED <<clients, rdb, notifs, cfgs, conn>>
         /\ NewNotificationWrites' # {} =>
              /\ EventPersisted'
              /\ Len(notifs') = Len(notifs) + 1
              /\ notifs'[Len(notifs')].userId = last'.user
              /\ \A i \in NewNotificationWrites' : last'.wlog[i].data = Len(notifs')]_vars

\* partition p1 dropped an event whose insert failed, while a connection of its
\* user was writable, and both readers are still running
C15_Witness ==
    /\ EventDropped
    /\ last.part = "p1"
    /\ last.frame.parses
    /\ last.calls = <<[op |-> "Create", err |-> TRUE]>>
    /\ last.user \in DOMAIN clients
    /\ Elems(clients[last.user]) \cap Writable # {}
    /\ \A p \in Partitions : readers[p] = "running"


\* a REST request that passed the checks of its headers and body
RestRan == last.op = "rest" /\ last.calls # <<>>
RestPersisted == RestRan /\ ~last.calls[1].err

\* C16: a notification of the REST endpoint is persisted first and then pushed
\* through the gated send to every handle of the user's registry entry; when
\* the insert fails nothing is pushed and the request fails; when the user is
\* not connected or the gate refuses, the notification is persisted all the
\* same and the request succeeds.
C16_RestCreate ==
    RestRan =>
       /\ last.calls[1].op = "Create"
       /\ ~RestPersisted =>
             /\ last.sends = <<>> /\ last.wlog = <<>>
             /\ last.out = StatusInternalServerError
       /\ RestPersisted =>
             /\ last.out = StatusCreated
             /\ NewestUnreadOf(last.user)
             /\ Len(last.sends) = 1
             /\ ~last.sends[1].bypass
             /\ last.sends[1].event = NEW_NOTIFICATION
             /\ last.sends[1].res = OK =>
                   /\ Tried(last.sends[1]) = Handles(last.sends[1])
                   /\ \A i \in 1..Len(last.wlog) : last.wlog[i].data = Len(notifs)
             /\ last.sends[1].res # OK => last.wlog = <<>>
             /\ Disabled(last.user) => last.sends[1].res # OK

\* the endpoint persisted a notification for a user with two handles and
\* wrote it to both
C16_Witness ==
    /\ RestPersisted
    /\ last.out = StatusCreated
    /\ last.sends[1].res = OK
    /\ Len(Handles(last.sends[1])) = 2
    /\ Len(last.wlog) = 2

\* C17, as stated: a request whose Origin is absent or not allowed, or that
\* carries no userId, is turned away without a protocol upgrade, and creates no
\* session, no keepalive task and no registry or ClientInfo entry.
C17_RejectedWithoutUpgrade ==
    [][last'.op = "reject" =>
         /\ last'.out = "not upgraded"
         /\ UNCHANGED <<clients, rdb, conn>>
         /\ last'.calls = <<>>]_vars

\* a write of the handler that just ran failed on connection c
WriteFailedOn(c) == \E i \in 1..Len(last.wlog) : last.wlog[i].conn = c /\ ~last.wlog[i].ok
\* the session of connection c is over: its read loop has ended and its socket is closed
Closed(c) == conn[c].sess = "closed" /\ ~conn[c].open

\* C18: a read error in the read loop ends the session and closes the
\* connection at once; after a write error on a handle while a payload is
\* sent, the session of that handle eventually stops reading frames and its
\* connection is closed; a frame is only ever processed by a session that is
\* streaming on an open connection.
C18_TransportError ==
    /\ [][last'.op = "readError" =>
            conn'[last'.conn].sess = "closed" /\ ~conn'[last'.conn].open]_vars
    /\ [][last'.op = "frame" => conn[last'.conn].sess = "streaming" /\ conn[last'.conn].open]_vars
    /\ \A c \in Conns : WriteFailedOn(c) ~> Closed(c)

\* a payload write failed on a connection whose session is still reading frames
C18_Witness ==
    \E c \in Conns :
       /\ WriteFailedOn(c)
       /\ conn[c].sess = "streaming"
       /\ conn[c].open
       /\ conn[c].ping = "running"

\* connection c is a handle of the registry
Registered(c) == \E u \in DOMAIN clients : c \in Elems(clients[u])

C20_NoBlockingUnderLock ==
    \A i \in 1..Len(last.held) : last.held[i].lock = "none"

\* C23, as stated: every key of the registry map has at least one handle.
C23_NoEmptyEntry == \A u \in DOMAIN clients : Len(clients[u]) > 0

\* C24, as stated: a frame of a session of user U changes (marks as read,
\* deletes) no notification whose userId is not U.
C24_OwnNotificationsOnly ==
    [][last'.op = "frame" =>
         \A i \in DOMAIN notifs :
            notifs[i].userId # last'.user => notifs'[i] = notifs[i]]_vars

\* C28, as stated: registering a further handle for a user who has a live
\* handle leaves the user's ClientInfo record (ConnectedAt and
\* EnableNotification) as it was.
C28_AdditionalHandleKeepsInfo ==
    [][/\ last'.op = "connect"
       /\ last'.user \in DOMAIN clients
       /\ Elems(clients[last'.user]) \cap Writable # {}
       /\ last'.user \in DOMAIN rdb
       => rdb'[last'.user] = rdb[last'.user]]_vars

\* the handler that just ran is a connect whose StoreClient failed on the write
\* of the ClientInfo record
StoreRejected ==
    /\ last.op = "connect"
    /\ last.calls # <<>>
    /\ last.calls[Len(last.calls)] = [op |-> "Redis.Set", err |-> TRUE]

\* C29, as stated: when StoreClient fails on the external store write, the
\* handle is not in the registry.
C29_RejectedHandleNotRegistered == StoreRejected => ~Registered(last.conn)

\* C27, as stated: after a toggle the EnableNotification of the user's
\* ClientInfo record equals that of the user's configuration, also when one of
\* the two updates failed, and the configuration written to the client carries
\* the value the gate uses.
C27_ToggleConsistent ==
    ToggleRan /\ last.user \in DOMAIN rdb /\ cfgs[last.user] # <<>> =>
       /\ rdb[last.user].EnableNotification = cfgs[last.user][1]
       /\ \A i \in WriteIdx :
             last.wlog[i].event = LIST_CONFIGURATIONS =>
                last.wlog[i].data.enableNotification = rdb[last.user].EnableNotification

\* C25, as stated: there is at most one configuration row per user.
C25_OneRowPerUser == \A u \in Users : Len(cfgs[u]) <= 1

\* the session of connection c has left Streaming
LeftStreaming(c) == conn[c].sess = "closed" \/ conn[c].ping = "stopped"
\* the session of connection c is closed and nothing of it is left
CleanedUp(c) == Closed(c) /\ conn[c].ping = "stopped" /\ ~Registered(c)

\* C30: every session that has left Streaming, by a read error (the client
\* went away) or by a failed ping, eventually is closed with its handle out of the
\* registry, its connection closed and its keepalive task stopped, and stays
\* so; no handle of a closed session stays in the registry for ever.
C30_SessionCleanup ==
    /\ \A c \in Conns : LeftStreaming(c) ~> CleanedUp(c)
    /\ [][\A c \in Conns : CleanedUp(c) => CleanedUp(c)']_vars

\* a session was closed by a read error while its keepalive task still runs
C30_Witness ==
    /\ last.op = "readError"
    /\ conn[last.conn].ping = "running"
    /\ conn[last.conn].sess = "closed"

\* C26, as stated: while the last toggle of a user turned notifications off,
\* no newNotification is written to a connection of that user.
C26_NoPushWhileOff ==
    \A i \in WriteIdx :
       last.wlog[i].event = NEW_NOTIFICATION => conn[last.wlog[i].conn].user \notin muted

\* the next statement of task t writes, reads or writes, the registry map
MapWrite(t) == tasks[t].pc \in {"store.append", "remove.edit", "send.assign"}
MapAccess(t) == MapWrite(t) \/ tasks[t].pc = "send.get"
\* task t is inside WriteMessage on connection c
InWrite(t, c) == tasks[t].pc \in {"send.inwrite", "ping.inwrite"} /\ tasks[t].c = c

\* C21, as stated: a task that writes the registry map holds the lock for
\* writing, and no other task reads or writes the map at that time.
C21_WritesUnderWriterLock ==
    \A t \in Tasks :
       MapWrite(t) => HoldsW(t) /\ \A x \in Tasks \ {t} : ~MapAccess(x)

\* C22, as stated: no two tasks are inside a write on the same connection at
\* the same time.
C22_OneWriterPerConn ==
    \A c \in Conns : \A t \in Tasks, x \in Tasks :
       InWrite(t, c) /\ InWrite(x, c) => t = x

\* the read loop of connection c is still accepting frames
Streaming(c) == conn[c].sess = "streaming" /\ conn[c].open
\* connection c is a handle of the registry entry of its user
RegisteredForUser(c) ==
    conn[c].user \in DOMAIN clients /\ c \in Elems(clients[conn[c].user])

\* C31, as stated: a session whose read loop is still accepting frames has its
\* handle in the registry entry of its user.
C31_StreamingIsRegistered == \A c \in Conns : Streaming(c) => RegisteredForUser(c)

\* C31, amended: a session whose read loop is still accepting frames, on a
\* connection whose writes succeed, has its handle in the registry entry of its
\* user; a resend caused by its own frame, when it is sent, is written to its
\* own connection.
C31_WritableIsRegistered ==
    /\ \A c \in Conns : Streaming(c) /\ conn[c].up => RegisteredForUser(c)
    /\ FrameRan /\ Streaming(last.conn) /\ conn[last.conn].up =>
          \A i \in SendIdx :
             last.sends[i].res = OK =>
                \E k \in 1..Len(last.sends[i].writes) :
                   last.sends[i].writes[k] = [conn |-> last.conn, ok |-> TRUE]

\* two sessions of a user are streaming and a frame of one of them caused a
\* resend that was written to both
C31_Witness ==
    /\ MutationRan
    /\ \A c \in Conns : Streaming(c) /\ conn[c].up
    /\ Len(last.sends) = 1
    /\ last.sends[1].res = OK
    /\ Len(last.sends[1].writes) = 2

\* C36, as stated: a toggle leaves the ID and the ConnectedAt of the user's
\* ClientInfo record as they were stored at registration.
C36_ToggleKeepsConnectedAt ==
    [][ToggleRan' /\ last'.user \in DOMAIN rdb /\ last'.user \in DOMAIN rdb' =>
          /\ rdb'[last'.user].ID = rdb[last'.user].ID
          /\ rdb'[last'.user].ConnectedAt = rdb[last'.user].ConnectedAt]_vars

\* user u has had sessions and each of them is closed, its keepalive task stopped
AllClosed(u) ==
    /\ \E c \in Conns : conn[c].user = u
    /\ \A c \in Conns : conn[c].user = u => Closed(c) /\ conn[c].ping = "stopped"

\* C32, as stated: once every session of a user is closed, the external store
\* holds no ClientInfo record of that user.
C32_NoRecordAfterClose == \A u \in Users : AllClosed(u) => u \notin DOMAIN rdb

\* this instance, or the second one, holds a live handle of user u
HoldsLiveHandle(u) ==
    \/ \E c \in Conns : conn[c].user = u /\ Streaming(c) /\ conn[c].up /\ RegisteredForUser(c)
    \/ u \in DOMAIN peer /\ peer[u] # <<>>

\* C33, as stated: while an instance holds a live handle of a user, and no
\* handler is running, the user's ClientInfo record exists in the shared store.
C33_RecordWhileConnected ==
    \A u \in Users : last = Idle /\ HoldsLiveHandle(u) => u \in DOMAIN rdb

\* C34, as stated: the Event Hub client is closed only when every partition
\* reader has ended, never while a reader is inside its callback.
C34_CloseAfterReaders ==
    hub.client = "closed" =>
       \A p \in Partitions : readers[p] = "stopped" /\ ~InCallback(p)

\* C35, as stated: a connection whose handler returned before or at the
\* registration (configuration not created, or handle not stored) has no
\* keepalive task; the task exists only for a session that reached Streaming.
C35_KeepaliveAfterRegistration ==
    last.op = "connect" /\ conn[last.conn].sess # "streaming" =>
       conn[last.conn].ping = "none"

C38_RequiredFields ==
    last.op = "event" /\ EventPersisted =>
       /\ notifs[Len(notifs)].userId # ""
       /\ notifs[Len(notifs)].appId # ""
       /\ notifs[Len(notifs)].groupKey # ""

====
